---- MODULE Spec2Model ----
(***************************************************************************)
(* Model of the BookToNote OCR scripts:                                    *)
(*   scripts/ocr_worker.py     persistent PaddleOCR worker (stdin/stdout)  *)
(*   scripts/ocr_engine.py     one-shot PaddleOCR wrapper                  *)
(*   scripts/surya_engine.py   one-shot Surya wrapper                      *)
(*   scripts/qwen_vl_engine.py one-shot Qwen2-VL wrapper                   *)
(*                                                                         *)
(* Strings that the code manipulates character by character (OCR text)     *)
(* are sequences of one-character strings; strings that the code only      *)
(* passes around (request lines, paths, messages) are TLA+ strings.        *)
(* Vertical keys are kept doubled (y2 = bbox[1] + bbox[3] = 2 * y_pos) so  *)
(* that the half-pixel centres the code computes stay exact.               *)
(* Confidences are in hundredths (0.5 is 50).                              *)
(***************************************************************************)
EXTENDS Integers, Sequences, FiniteSets, TLC

VARIABLES
    pc,         \* ocr_worker.main: position of the worker process
    stdin,      \* lines not yet read from the input stream
    stdout,     \* lines written to the response stream
    stderr,     \* lines written to the diagnostic stream
    exitCode,   \* process exit status, None while running
    ocrLoaded,  \* ocr_worker._ocr is set
    line,       \* main: the stripped line being handled
    response,   \* main: the response being built
    temp_path,  \* process_request: temp_path local
    tmpfs,      \* files present under /tmp that the scripts created
    clock,      \* time.time() in microseconds, advancing
    consumed,   \* history: every line read from stdin, in order
    answered,   \* history: per written response, the line and what it touched
    events,     \* history: what the request in flight touched so far
    oneshot,    \* qwen_vl_engine.main: state of a one-shot run
    layout,     \* structured run_ocr applied to one recognizer result
    freetext,   \* free-text reconstruction applied to one generated text
    resize      \* resize_image_if_needed applied to one image size

vars == <<pc, stdin, stdout, stderr, exitCode, ocrLoaded, line, response,
          temp_path, tmpfs, clock, consumed, answered, events,
          oneshot, layout, freetext, resize>>

workerVars == <<pc, stdin, stdout, stderr, exitCode, ocrLoaded, line, response,
                temp_path, tmpfs, clock, consumed, answered, events>>

----------------------------------------------------------------------------
(* Bounds *)

MaxRequests == 3     \* lines on the worker's input stream
MaxLines == 3        \* recognized lines in one structured result
MaxChars == 5        \* characters in one generated text
MaxOver == 3         \* how far past a multiple of the cap image sides go

----------------------------------------------------------------------------
(* Helpers *)

Max(a, b) == IF a >= b THEN a ELSE b

----------------------------------------------------------------------------
(* Python string operations on sequences of characters *)

Whitespace == {" ", "\n", "\t"}

\* str.lstrip()
RECURSIVE LStrip(_)
LStrip(s) == IF s # <<>> /\ Head(s) \in Whitespace THEN LStrip(Tail(s)) ELSE s

\* str.rstrip()
RECURSIVE RStrip(_)
RStrip(s) ==
    IF s # <<>> /\ s[Len(s)] \in Whitespace
    THEN RStrip(SubSeq(s, 1, Len(s) - 1))
    ELSE s

\* str.strip()
Strip(s) == RStrip(LStrip(s))

\* sep.join(parts)
RECURSIVE Join(_, _)
Join(parts, sep) ==
    IF parts = <<>> THEN <<>>
    ELSE IF Len(parts) = 1 THEN parts[1]
    ELSE parts[1] \o sep \o Join(Tail(parts), sep)

\* s.split(sep) for a non-empty separator: leftmost, non-overlapping
RECURSIVE Split(_, _)
Split(s, sep) ==
    LET hits == {i \in 1..(Len(s) - Len(sep) + 1) :
                    SubSeq(s, i, i + Len(sep) - 1) = sep}
    IN  IF hits = {} THEN <<s>>
        ELSE LET i == CHOOSE h \in hits : \A g \in hits : h <= g
             IN  <<SubSeq(s, 1, i - 1)>>
                 \o Split(SubSeq(s, i + Len(sep), Len(s)), sep)

\* s.split(): the maximal runs of non-whitespace characters
RECURSIVE SplitWhitespace(_)
SplitWhitespace(s) ==
    LET t == LStrip(s)
    IN  IF t = <<>> THEN <<>>
        ELSE LET stops == {i \in 1..Len(t) : t[i] \in Whitespace}
                 n == IF stops = {} THEN Len(t)
                      ELSE (CHOOSE h \in stops : \A g \in stops : h <= g) - 1
             IN  <<SubSeq(t, 1, n)>> \o SplitWhitespace(SubSeq(t, n + 1, Len(t)))

SP == <<" ">>
NLNL == <<"\n", "\n">>
NL == <<"\n">>

----------------------------------------------------------------------------
(* Structured layout reconstruction: run_ocr of ocr_worker.py,             *)
(* ocr_engine.py and surya_engine.py.  A recognizer result is a record     *)
(* [rec_texts, rec_scores, rec_boxes] of three sequences; a box is         *)
(* <<x0, y0, x1, y1>>.  A kept line is [y2, text, src] where src is the    *)
(* index of the line in the recognizer's emission order (the code keeps    *)
(* the pair (y_pos, text); src only names the line).                       *)

CONF_THRESHOLD == 50    \* confidence > 0.5, in hundredths
GAP_THRESHOLD2 == 80    \* gap > 40, on doubled keys

\* confidence = rec_scores[i] if i < len(rec_scores) else 0
Confidence(rec, i) == IF i <= Len(rec.rec_scores) THEN rec.rec_scores[i] ELSE 0

\* y_pos = (bbox[1] + bbox[3]) / 2 if i < len(rec_boxes) else i * 10
\* (doubled; the code's i is zero-based)
YPos2(rec, i) ==
    IF i <= Len(rec.rec_boxes)
    THEN rec.rec_boxes[i][2] + rec.rec_boxes[i][4]
    ELSE (i - 1) * 20

\* ocr_worker.py / ocr_engine.py: "if text and confidence > 0.5"
KeepPaddle(rec, i) == rec.rec_texts[i] # <<>> /\ Confidence(rec, i) > CONF_THRESHOLD

\* surya_engine.py: "text = text_line.text.strip(); if text and confidence > 0.5"
KeepSurya(rec, i) ==
    Strip(rec.rec_texts[i]) # <<>> /\ rec.rec_scores[i] > CONF_THRESHOLD

\* the "for i, text in enumerate(...)" loop building lines, from index i on
RECURSIVE CollectLines(_, _, _)
CollectLines(rec, i, surya) ==
    IF i > Len(rec.rec_texts) THEN <<>>
    ELSE LET keep == IF surya THEN KeepSurya(rec, i) ELSE KeepPaddle(rec, i)
             this == [y2 |-> YPos2(rec, i), text |-> Strip(rec.rec_texts[i]), src |-> i]
         IN  (IF keep THEN <<this>> ELSE <<>>) \o CollectLines(rec, i + 1, surya)

\* one step of a stable sort: x goes after every element whose key is <= its own
RECURSIVE InsertByKey(_, _)
InsertByKey(sorted, x) ==
    IF sorted = <<>> THEN <<x>>
    ELSE IF Head(sorted).y2 <= x.y2
         THEN <<Head(sorted)>> \o InsertByKey(Tail(sorted), x)
         ELSE <<x>> \o sorted

\* lines.sort(key=lambda x: x[0])  (list.sort is stable)
RECURSIVE SortLines(_)
SortLines(ls) ==
    IF ls = <<>> THEN <<>>
    ELSE InsertByKey(SortLines(SubSeq(ls, 1, Len(ls) - 1)), ls[Len(ls)])

SplitsAfterGap_Inclusive(gap2) == gap2 >= GAP_THRESHOLD2

\* "if gap > 40"
SplitsAfterGap(gap2) == gap2 > GAP_THRESHOLD2

\* the "for y_pos, text in lines" loop: groups closed so far, the current
\* paragraph's lines, last_y (<<>> for None, else <<y>>); returns the groups including the trailing one
RECURSIVE GroupLines(_, _, _, _)
GroupLines(ls, groups, current, last_y) ==
    IF ls = <<>>
    THEN IF current # <<>> THEN Append(groups, current) ELSE groups
    ELSE LET l == Head(ls)
             close == /\ last_y # <<>>
                      /\ SplitsAfterGap(l.y2 - last_y[1])
                      /\ current # <<>>
         IN  IF close
             THEN GroupLines(Tail(ls), Append(groups, current), <<l>>, <<l.y2>>)
             ELSE GroupLines(Tail(ls), groups, Append(current, l), <<l.y2>>)

\* " ".join(current_paragraph)
ParagraphOf(group) == Join([k \in 1..Len(group) |-> group[k].text], SP)

EmptyLayout == [full_text |-> <<>>, paragraphs |-> <<>>, lines |-> <<>>, groups |-> <<>>]

\* run_ocr from the recognizer's result on: (full_text, paragraphs), with the
\* sorted lines and their grouping kept for inspection
RunOcrStructured(rec, surya) ==
    IF rec.rec_texts = <<>> THEN EmptyLayout
    ELSE LET ls == CollectLines(rec, 1, surya)
         IN  IF ls = <<>> THEN EmptyLayout
             ELSE LET sorted == SortLines(ls)
                      groups == GroupLines(sorted, <<>>, <<>>, <<>>)
                      paragraphs == [g \in 1..Len(groups) |-> ParagraphOf(groups[g])]
                  IN  [full_text |-> Join(paragraphs, NLNL),
                       paragraphs |-> paragraphs,
                       lines |-> sorted,
                       groups |-> groups]


----------------------------------------------------------------------------
(* Free-text reconstruction: qwen_vl_engine.run_ocr after batch_decode *)

Clean_JoinNewline(p) == Join(SplitWhitespace(p), NL)

\* cleaned = " ".join(p.split())
Clean(p) == Join(SplitWhitespace(p), SP)

NonEmpty(p) == p # <<>>

\* from "full_text = ...[0].strip()" to "return full_text, paragraphs"
FreeTextReconstruct(decoded) ==
    LET full == Strip(decoded)
    IN  IF full = <<>> THEN [full_text |-> <<>>, paragraphs |-> <<>>]
        ELSE LET byBlank == Split(full, NLNL)
                 raw == IF Len(byBlank) = 1 THEN Split(full, NL) ELSE byBlank
                 cleaned == [k \in 1..Len(raw) |-> Clean(raw[k])]
                 paragraphs == SelectSeq(cleaned, NonEmpty)
             IN  [full_text |-> Join(paragraphs, NLNL), paragraphs |-> paragraphs]

----------------------------------------------------------------------------
(* Resize cap.  The code computes int(side * scale) in binary floating     *)
(* point with scale = cap / max_dim.  When side * cap / max_dim is not a   *)
(* whole number the double result truncates to its floor; when it is a     *)
(* whole number n the double product is either n or just below n, so the   *)
(* result is n or n - 1 (int(4212 * (2200 / 4212)) is 2199).  under (0 or  *)
(* 1) is the pixel lost in that case; both outcomes are kept.              *)

MAX_OCR_DIMENSION == 2200
MAX_IMAGE_SIZE == 1024

\* int(side * (cap / max_dim))
Scaled(side, cap, max_dim, under) ==
    IF (side * cap) % max_dim = 0
    THEN (side * cap) \div max_dim - under
    ELSE (side * cap) \div max_dim

ResizeWorker_StrictBelow(width, height, uw, uh) ==
    LET max_dim == Max(width, height)
    IN  IF max_dim < MAX_OCR_DIMENSION
        THEN [width |-> width, height |-> height, resized |-> FALSE]
        ELSE [width |-> Scaled(width, MAX_OCR_DIMENSION, max_dim, uw),
              height |-> Scaled(height, MAX_OCR_DIMENSION, max_dim, uh),
              resized |-> TRUE]

\* ocr_worker.resize_image_if_needed: size of the image written to
\* output_path and the returned flag
ResizeWorker(width, height, uw, uh) ==
    LET max_dim == Max(width, height)
    IN  IF max_dim <= MAX_OCR_DIMENSION
        THEN [width |-> width, height |-> height, resized |-> FALSE]
        ELSE [width |-> Scaled(width, MAX_OCR_DIMENSION, max_dim, uw),
              height |-> Scaled(height, MAX_OCR_DIMENSION, max_dim, uh),
              resized |-> TRUE]

\* qwen_vl_engine.resize_image_if_needed: size of the returned image;
\* ratio = min(cap / width, cap / height) = cap / max(width, height)
ResizeQwen(width, height, uw, uh) ==
    IF width <= MAX_IMAGE_SIZE /\ height <= MAX_IMAGE_SIZE
    THEN [width |-> width, height |-> height]
    ELSE [width |-> Scaled(width, MAX_IMAGE_SIZE, Max(width, height), uw),
          height |-> Scaled(height, MAX_IMAGE_SIZE, Max(width, height), uh)]


----------------------------------------------------------------------------
(* The worker's environment: request lines, the filesystem, the images     *)
(* and what the recognizer returns for them.                               *)
(*                                                                         *)
(* A line is a sequence of tokens; every line read from stdin ends with    *)
(* the token "\n".  A JSON string literal is the token holding its         *)
(* content, so the line {"image_path": "/page.png"} is                     *)
(* <<"{", "image_path", ":", "/page.png", "}", "\n">>.                     *)

NoExit == -1

Paths == {"/nonexistent", "/corrupt.png", "/full.png", "/crash.png",
          "/blank.png", "/margin.png", "/page.png"}

\* files that exist on disk
ExistingFiles == Paths \ {"/nonexistent"}

\* PIL cannot decode it: Image.open raises
Undecodable == {"/corrupt.png"}

\* img.save(output_path) raises after output_path was created
SaveFails == {"/full.png"}

ImageSize(path) ==
    IF path = "/page.png" THEN <<3300, 4400>> ELSE <<800, 600>>

Box(top, bottom) == <<0, top, 100, bottom>>

\* what _ocr.predict returns for the working copy of an image; the
\* sequence is empty when predict raises
PredictResult(path) ==
    CASE path = "/crash.png" -> <<>>
      [] path = "/blank.png" ->
            <<[rec_texts |-> <<>>, rec_scores |-> <<>>, rec_boxes |-> <<>>]>>
      [] path = "/margin.png" ->
            <<[rec_texts |-> << <<" ">>, <<"a">> >>,
               rec_scores |-> <<90, 90>>,
               rec_boxes |-> <<Box(0, 10), Box(100, 110)>>]>>
      [] OTHER ->
            <<[rec_texts |-> << <<"b">>, <<"a">>, <<"c">> >>,
               rec_scores |-> <<95, 90, 80>>,
               rec_boxes |-> <<Box(20, 30), Box(0, 10), Box(100, 110)>>]>>

RequestLine(value) == <<"{", "image_path", ":", value, "}", "\n">>

InputLines ==
    { <<"\n">>, <<" ", "\n">>, <<"{", "bad", "\n">>, <<"5", "\n">>,
      <<"{", "}", "\n">>, RequestLine(""), RequestLine("7") }
    \cup { RequestLine(p) : p \in Paths }

\* json.loads on a stripped line: <<>> when it raises JSONDecodeError, else
\* <<value>>.  A value is [type |-> "int"] or a dict [type |-> "dict",
\* has_path, image_path]; image_path is [t |-> "str", s |-> content] or
\* [t |-> "int"].
JsonLoads(l) ==
    CASE l = <<"5">> -> <<[type |-> "int"]>>
      [] l = <<"{", "}">> ->
            <<[type |-> "dict", has_path |-> FALSE, image_path |-> [t |-> "none"]]>>
      [] Len(l) = 5 /\ l[1] = "{" /\ l[2] = "image_path" /\ l[3] = ":" /\ l[5] = "}" ->
            <<[type |-> "dict", has_path |-> TRUE,
               image_path |-> IF l[4] = "7" THEN [t |-> "int"]
                                            ELSE [t |-> "str", s |-> l[4]]]>>
      [] OTHER -> <<>>

\* request.get("image_path") is falsy: None or ""
Falsy(v) == v.t = "none" \/ (v.t = "str" /\ v.s = "")

\* Path(image_path).is_file()
IsFile(path) == path \in ExistingFiles

Failure(message) == [success |-> FALSE, error |-> message]

Ready == [ready |-> TRUE]
NoResponse == [none |-> TRUE]

InvalidJson == Failure(<<"Invalid JSON: ", "Expecting property name enclosed in double quotes: line 1 column 2 (char 1)">>)
NoGetAttribute == Failure(<<"Unexpected error: ", "'int' object has no attribute 'get'">>)
PathTypeError == Failure(<<"Unexpected error: ", "expected str, bytes or os.PathLike object, not int">>)
MissingImagePath == Failure(<<"Missing image_path">>)
FileNotFound(path) == Failure(<<"File not found: ", path>>)
NoTextDetected == Failure(<<"No text detected">>)
CannotIdentify(path) == Failure(<<"cannot identify image file ", path>>)
NoSpaceLeft(name) == Failure(<<"[Errno 28] No space left on device: ", name>>)
PredictFailed == Failure(<<"predict failed">>)

\* f"/tmp/ocr_input_{int(time.time() * 1000000)}.png"
TempName(now) == <<"/tmp/ocr_input_", now, ".png">>

QwenTempName == <<"/tmp/qwen_vl_resized.jpg", 0, "">>

----------------------------------------------------------------------------
(* ocr_worker.main and process_request *)

WorkerInit ==
    /\ pc = "init"
    /\ stdin \in UNION {[1..n -> InputLines] : n \in 0..MaxRequests}
    /\ stdout = <<>>
    /\ stderr = <<>>
    /\ exitCode = NoExit
    /\ ocrLoaded = FALSE
    /\ line = <<>>
    /\ response = NoResponse
    /\ temp_path = <<>>
    /\ tmpfs = {}
    /\ clock = 0
    /\ consumed = <<>>
    /\ answered = <<>>
    /\ events = {}

WorkerIdle ==
    /\ pc = "off"
    /\ stdin = <<>>
    /\ stdout = <<>>
    /\ stderr = <<>>
    /\ exitCode = NoExit
    /\ ocrLoaded = FALSE
    /\ line = <<>>
    /\ response = NoResponse
    /\ temp_path = <<>>
    /\ tmpfs = {}
    /\ clock = 0
    /\ consumed = <<>>
    /\ answered = <<>>
    /\ events = {}

\* main: init_ocr() succeeds
LoadModel ==
    /\ pc = "init"
    /\ stderr' = stderr \o <<"Loading PaddleOCR model...", "PaddleOCR model loaded successfully">>
    /\ ocrLoaded' = TRUE
    /\ pc' = "loaded"
    /\ UNCHANGED <<stdin, stdout, exitCode, line, response, temp_path, tmpfs,
                   clock, consumed, answered, events>>

LoadModelFails_Announce ==
    /\ pc = "init"
    /\ stderr' = stderr \o <<"Loading PaddleOCR model...", "Failed to load PaddleOCR">>
    /\ stdout' = Append(stdout, Ready)
    /\ exitCode' = 1
    /\ pc' = "exited"
    /\ UNCHANGED <<stdin, ocrLoaded, line, response, temp_path, tmpfs,
                   clock, consumed, answered, events>>

\* main: init_ocr() raises; sys.exit(1)
LoadModelFails ==
    /\ pc = "init"
    /\ stderr' = stderr \o <<"Loading PaddleOCR model...", "Failed to load PaddleOCR">>
    /\ exitCode' = 1
    /\ pc' = "exited"
    /\ UNCHANGED <<stdin, stdout, ocrLoaded, line, response, temp_path, tmpfs,
                   clock, consumed, answered, events>>

\* main: print(json.dumps({"ready": True}), flush=True)
SignalReady ==
    /\ pc = "loaded"
    /\ stdout' = Append(stdout, Ready)
    /\ pc' = "ready"
    /\ UNCHANGED <<stdin, stderr, exitCode, ocrLoaded, line, response, temp_path,
                   tmpfs, clock, consumed, answered, events>>

\* main: "for line in sys.stdin" yields a line; strip; blank lines are skipped
ReadLine ==
    /\ pc = "ready"
    /\ stdin # <<>>
    /\ stdin' = Tail(stdin)
    /\ consumed' = Append(consumed, Head(stdin))
    /\ IF Strip(Head(stdin)) = <<>>
       THEN UNCHANGED <<pc, line>>
       ELSE pc' = "handle" /\ line' = Strip(Head(stdin))
    /\ events' = {}
    /\ UNCHANGED <<stdout, stderr, exitCode, ocrLoaded, response, temp_path,
                   tmpfs, clock, answered>>

\* main: stdin is at end of file; the loop and the process end
EndOfInput ==
    /\ pc = "ready"
    /\ stdin = <<>>
    /\ pc' = "terminated"
    /\ exitCode' = 0
    /\ UNCHANGED <<stdin, stdout, stderr, ocrLoaded, line, response, temp_path,
                   tmpfs, clock, consumed, answered, events>>

\* what json.loads and the head of process_request decide, up to the
\* is_file check: <<response, events>>, response NoResponse when the
\* request goes on to preprocessing
Validate_NoExistenceCheck(l) ==
    LET parsed == JsonLoads(l)
    IN  IF parsed = <<>> THEN <<InvalidJson, {}>>
        ELSE IF parsed[1].type # "dict" THEN <<NoGetAttribute, {}>>
        ELSE IF Falsy(parsed[1].image_path) THEN <<MissingImagePath, {}>>
        ELSE IF parsed[1].image_path.t # "str" THEN <<PathTypeError, {}>>
        ELSE <<NoResponse, {"fs"}>>

Validate(l) ==
    LET parsed == JsonLoads(l)
    IN  IF parsed = <<>> THEN <<InvalidJson, {}>>
        ELSE IF parsed[1].type # "dict" THEN <<NoGetAttribute, {}>>
        ELSE IF Falsy(parsed[1].image_path) THEN <<MissingImagePath, {}>>
        ELSE IF parsed[1].image_path.t # "str" THEN <<PathTypeError, {}>>
        ELSE IF ~IsFile(parsed[1].image_path.s)
             THEN <<FileNotFound(parsed[1].image_path.s), {"fs"}>>
        ELSE <<NoResponse, {"fs"}>>

\* the image_path of a line that passed Validate
ImagePath(l) == JsonLoads(l)[1].image_path.s


HandleRequest_DropOnMissing ==
    /\ pc = "handle"
    /\ LET v == Validate(line)
       IN  /\ events' = events \cup v[2]
           /\ IF v[1] = NoResponse
              THEN pc' = "preprocess" /\ UNCHANGED response
              ELSE IF v[1] = MissingImagePath
                   THEN pc' = "ready" /\ UNCHANGED response
                   ELSE pc' = "respond" /\ response' = v[1]
    /\ UNCHANGED <<stdin, stdout, stderr, exitCode, ocrLoaded, line, temp_path,
                   tmpfs, clock, consumed, answered>>

HandleRequest_NoCatch ==
    /\ pc = "handle"
    /\ LET v == Validate(line)
       IN  /\ events' = events \cup v[2]
           /\ IF v[1] = NoResponse
              THEN pc' = "preprocess" /\ UNCHANGED <<response, exitCode>>
              ELSE IF v[1] = InvalidJson
                   THEN pc' = "exited" /\ exitCode' = 1 /\ UNCHANGED response
                   ELSE pc' = "respond" /\ response' = v[1] /\ UNCHANGED exitCode
    /\ UNCHANGED <<stdin, stdout, stderr, ocrLoaded, line, temp_path,
                   tmpfs, clock, consumed, answered>>

\* main: json.loads(line) and process_request up to the is_file check, with
\* main's two except clauses
HandleRequest ==
    /\ pc = "handle"
    /\ LET v == Validate(line)
       IN  /\ events' = events \cup v[2]
           /\ IF v[1] = NoResponse
              THEN pc' = "preprocess" /\ UNCHANGED response
              ELSE pc' = "respond" /\ response' = v[1]
    /\ UNCHANGED <<stdin, stdout, stderr, exitCode, ocrLoaded, line, temp_path,
                   tmpfs, clock, consumed, answered>>

\* process_request: temp_path = ...; resize_image_if_needed(image_path, temp_path)
Preprocess ==
    /\ pc = "preprocess"
    /\ LET path == ImagePath(line)
           name == TempName(clock)
       IN  /\ temp_path' = <<name>>
           /\ clock' = clock + 1
           /\ IF ~IsFile(path)
              THEN /\ response' = Failure(<<"[Errno 2] No such file or directory: ", path>>)
                   /\ events' = events \cup {"decode"}
                   /\ pc' = "finally"
                   /\ UNCHANGED tmpfs
              ELSE IF path \in Undecodable
              THEN /\ response' = CannotIdentify(path)
                   /\ events' = events \cup {"decode"}
                   /\ pc' = "finally"
                   /\ UNCHANGED tmpfs
              ELSE \E uw, uh \in {0, 1} :
                   LET out == ResizeWorker(ImageSize(path)[1], ImageSize(path)[2], uw, uh)
                       file == [name |-> name, src |-> path,
                                width |-> out.width, height |-> out.height]
                   IN  /\ tmpfs' = tmpfs \cup {file}
                       /\ events' = events \cup {"decode", "temp"}
                       /\ IF path \in SaveFails
                          THEN response' = NoSpaceLeft(name) /\ pc' = "finally"
                          ELSE UNCHANGED response /\ pc' = "recognize"
    /\ UNCHANGED <<stdin, stdout, stderr, exitCode, ocrLoaded, line, consumed, answered>>

\* the working copy at temp_path
TempFile == CHOOSE f \in tmpfs : f.name = temp_path[1]

\* process_request: run_ocr(temp_path) and the outcomes that follow it
Recognize ==
    /\ pc = "recognize"
    /\ ocrLoaded
    /\ events' = events \cup {"predict"}
    /\ LET result == PredictResult(TempFile.src)
       IN  IF result = <<>>
           THEN response' = PredictFailed
           ELSE LET out == RunOcrStructured(result[1], FALSE)
                IN  IF Strip(out.full_text) = <<>>
                    THEN response' = NoTextDetected
                    ELSE response' = [success |-> TRUE, text |-> out.full_text,
                                      paragraphs |-> out.paragraphs]
    /\ pc' = "finally"
    /\ UNCHANGED <<stdin, stdout, stderr, exitCode, ocrLoaded, line, temp_path,
                   tmpfs, clock, consumed, answered>>

\* process_request: the finally clause
Finally ==
    /\ pc = "finally"
    /\ tmpfs' = IF temp_path # <<>>
                THEN {f \in tmpfs : f.name # temp_path[1]}
                ELSE tmpfs
    /\ temp_path' = <<>>
    /\ pc' = "respond"
    /\ UNCHANGED <<stdin, stdout, stderr, exitCode, ocrLoaded, line, response,
                   clock, consumed, answered, events>>

\* main: print(json.dumps(response), flush=True)
Respond ==
    /\ pc = "respond"
    /\ stdout' = Append(stdout, response)
    /\ answered' = Append(answered, [line |-> line, response |-> response,
                                     events |-> events, nread |-> Len(consumed)])
    /\ response' = NoResponse
    /\ line' = <<>>
    /\ events' = {}
    /\ pc' = "ready"
    /\ UNCHANGED <<stdin, stderr, exitCode, ocrLoaded, temp_path, tmpfs, clock, consumed>>

otherVars == <<oneshot, layout, freetext, resize>>

WorkerNext ==
    \/ LoadModel /\ UNCHANGED otherVars
    \/ LoadModelFails /\ UNCHANGED otherVars
    \/ SignalReady /\ UNCHANGED otherVars
    \/ ReadLine /\ UNCHANGED otherVars
    \/ EndOfInput /\ UNCHANGED otherVars
    \/ HandleRequest /\ UNCHANGED otherVars
    \/ Preprocess /\ UNCHANGED otherVars
    \/ Recognize /\ UNCHANGED otherVars
    \/ Finally /\ UNCHANGED otherVars
    \/ Respond /\ UNCHANGED otherVars


----------------------------------------------------------------------------
(* qwen_vl_engine.main: one one-shot run on one image *)

OneShotOff == [pc |-> "off"]

\* image sizes the one-shot run is tried on
OneShotSizes == {<<800, 600>>, <<1024, 1024>>, <<1025, 600>>, <<600, 2048>>,
                 <<3300, 4400>>}

\* texts the model may generate
OneShotTexts == { <<>>, <<" ", "\n">>, <<"a">>, <<"a", "\n", "b">>,
                  <<"a", " ", " ", "b", "\n", "\n", "c">> }

OneShotInit ==
    /\ oneshot \in [pc : {"start"},
                    image_path : {"/nonexistent", "/corrupt.png", "/page.png"},
                    size : OneShotSizes,
                    decoded : OneShotTexts,
                    generate_raises : BOOLEAN,
                    image_file : {<<>>},
                    out : {<<>>},
                    exit : {NoExit}]
    /\ tmpfs = {}

\* main: the is_file check
QwenCheckFile ==
    /\ oneshot.pc = "start"
    /\ IF IsFile(oneshot.image_path)
       THEN oneshot' = [oneshot EXCEPT !.pc = "load"]
       ELSE oneshot' = [oneshot EXCEPT !.pc = "done", !.exit = 2]
    /\ UNCHANGED tmpfs

\* run_ocr: load and resize the image; a resized image is saved to the
\* fixed temp path and that copy is handed to the model
QwenLoadImage ==
    /\ oneshot.pc = "load"
    /\ IF oneshot.image_path \in Undecodable
       THEN /\ oneshot' = [oneshot EXCEPT !.pc = "done", !.exit = 3]
            /\ UNCHANGED tmpfs
       ELSE \E uw, uh \in {0, 1} :
            LET img == ResizeQwen(oneshot.size[1], oneshot.size[2], uw, uh)
            IN  IF <<img.width, img.height>> # oneshot.size
                THEN /\ tmpfs' = {f \in tmpfs : f.name # QwenTempName}
                                 \cup {[name |-> QwenTempName, src |-> oneshot.image_path,
                                        width |-> img.width, height |-> img.height]}
                     /\ oneshot' = [oneshot EXCEPT !.pc = "generate",
                                                   !.image_file = <<QwenTempName>>]
                ELSE /\ UNCHANGED tmpfs
                     /\ oneshot' = [oneshot EXCEPT !.pc = "generate",
                                                   !.image_file = <<oneshot.image_path>>]

\* run_ocr: generate, decode and reconstruct; main: report the outcome
QwenGenerate ==
    /\ oneshot.pc = "generate"
    /\ IF oneshot.generate_raises
       THEN oneshot' = [oneshot EXCEPT !.pc = "done", !.exit = 3]
       ELSE LET r == FreeTextReconstruct(oneshot.decoded)
            IN  IF Strip(r.full_text) = <<>>
                THEN oneshot' = [oneshot EXCEPT !.pc = "done", !.exit = 1]
                ELSE oneshot' = [oneshot EXCEPT !.pc = "done", !.exit = 0,
                                                !.out = <<r.full_text>>]
    /\ UNCHANGED tmpfs

OneShotNext ==
    \/ QwenCheckFile /\ UNCHANGED <<pc, stdin, stdout, stderr, exitCode, ocrLoaded, line, response, temp_path, clock, consumed, answered, events, layout, freetext, resize>>
    \/ QwenLoadImage /\ UNCHANGED <<pc, stdin, stdout, stderr, exitCode, ocrLoaded, line, response, temp_path, clock, consumed, answered, events, layout, freetext, resize>>
    \/ QwenGenerate /\ UNCHANGED <<pc, stdin, stdout, stderr, exitCode, ocrLoaded, line, response, temp_path, clock, consumed, answered, events, layout, freetext, resize>>

----------------------------------------------------------------------------
(* Structured run_ocr applied to one recognizer result *)

LayoutOff == [pc |-> "off"]

Texts == { <<>>, <<" ">>, <<"a">>, <<" ", "b", " ">> }
Scores == {50, 51}
Boxes == {Box(0, 10), Box(40, 50), Box(81, 91)}

SeqsUpTo(S, n) == UNION {[1..k -> S] : k \in 0..n}

RecResults ==
    UNION { [rec_texts : [1..n -> Texts],
             rec_scores : SeqsUpTo(Scores, n),
             rec_boxes : SeqsUpTo(Boxes, n)] : n \in 0..MaxLines }

\* five lines with centres 70, 0, 80, 20, 10, emitted out of order
ExampleResult ==
    [rec_texts |-> << <<"d">>, <<"a">>, <<"e">>, <<"c">>, <<"b">> >>,
     rec_scores |-> <<90, 90, 90, 90, 90>>,
     rec_boxes |-> <<Box(65, 75), Box(0, 0), Box(75, 85), Box(15, 25), Box(5, 15)>>]

LayoutInit ==
    layout \in [pc : {"input"}, engine : {"none"},
                rec : RecResults \cup {ExampleResult},
                out : {EmptyLayout}]

\* ocr_worker.run_ocr on the result of _ocr.predict
RunOcrWorker ==
    /\ layout.pc = "input"
    /\ layout' = [layout EXCEPT !.pc = "done", !.engine = "worker",
                                !.out = RunOcrStructured(layout.rec, FALSE)]

\* ocr_engine.run_ocr on the result of ocr.predict
RunOcrEngine ==
    /\ layout.pc = "input"
    /\ layout' = [layout EXCEPT !.pc = "done", !.engine = "paddle",
                                !.out = RunOcrStructured(layout.rec, FALSE)]

\* surya_engine.run_ocr on results[0].text_lines; every text line has a
\* confidence and a bbox
RunOcrSurya ==
    /\ layout.pc = "input"
    /\ Len(layout.rec.rec_scores) = Len(layout.rec.rec_texts)
    /\ Len(layout.rec.rec_boxes) = Len(layout.rec.rec_texts)
    /\ layout' = [layout EXCEPT !.pc = "done", !.engine = "surya",
                                !.out = RunOcrStructured(layout.rec, TRUE)]

LayoutNext ==
    \/ RunOcrWorker /\ UNCHANGED <<workerVars, oneshot, freetext, resize>>
    \/ RunOcrEngine /\ UNCHANGED <<workerVars, oneshot, freetext, resize>>
    \/ RunOcrSurya /\ UNCHANGED <<workerVars, oneshot, freetext, resize>>

----------------------------------------------------------------------------
(* Free-text reconstruction applied to one generated text, then to its own *)
(* output                                                                  *)

FreeTextOff == [pc |-> "off"]

Chars == {"a", "b", " ", "\n"}

FreeTextInit ==
    freetext \in [pc : {"input"},
                  decoded : SeqsUpTo(Chars, MaxChars),
                  first : {<<>>},
                  second : {<<>>}]

\* qwen_vl_engine.run_ocr, the reconstruction of the decoded text
Reconstruct ==
    /\ freetext.pc = "input"
    /\ freetext' = [freetext EXCEPT !.pc = "once",
                                    !.first = <<FreeTextReconstruct(freetext.decoded)>>]

\* the same reconstruction, given the full text it produced
Reapply ==
    /\ freetext.pc = "once"
    /\ freetext' = [freetext EXCEPT !.pc = "twice",
                                    !.second = <<FreeTextReconstruct(freetext.first[1].full_text)>>]

FreeTextNext ==
    \/ Reconstruct /\ UNCHANGED <<workerVars, oneshot, layout, resize>>
    \/ Reapply /\ UNCHANGED <<workerVars, oneshot, layout, resize>>

----------------------------------------------------------------------------
(* resize_image_if_needed applied to one image size *)

ResizeOff == [pc |-> "off"]

Near(cap) == UNION {((k * cap) - MaxOver)..((k * cap) + MaxOver) : k \in 1..3}

Sides == (1..MaxOver) \cup Near(MAX_OCR_DIMENSION) \cup Near(MAX_IMAGE_SIZE)
         \cup {1500, 3020, 4212}

ResizeInit ==
    resize \in [pc : {"input"}, width : Sides, height : Sides,
                cap : {0}, out : {<<>>}]

\* ocr_worker.resize_image_if_needed
ResizeForWorker ==
    /\ resize.pc = "input"
    /\ \E uw, uh \in {0, 1} :
        resize' = [resize EXCEPT !.pc = "done", !.cap = MAX_OCR_DIMENSION,
                       !.out = <<ResizeWorker(resize.width, resize.height, uw, uh)>>]

\* qwen_vl_engine.resize_image_if_needed, and run_ocr's
\* "image.size != original_size"
ResizeForQwen ==
    /\ resize.pc = "input"
    /\ \E uw, uh \in {0, 1} :
        LET img == ResizeQwen(resize.width, resize.height, uw, uh)
        IN  resize' = [resize EXCEPT !.pc = "done", !.cap = MAX_IMAGE_SIZE,
                           !.out = <<[width |-> img.width, height |-> img.height,
                                      resized |-> <<img.width, img.height>>
                                                  # <<resize.width, resize.height>>]>>]

ResizeNext ==
    \/ ResizeForWorker /\ UNCHANGED <<workerVars, oneshot, layout, freetext>>
    \/ ResizeForQwen /\ UNCHANGED <<workerVars, oneshot, layout, freetext>>

----------------------------------------------------------------------------
(* Specifications *)

\* the persistent worker
Init ==
    /\ WorkerInit
    /\ oneshot = OneShotOff /\ layout = LayoutOff
    /\ freetext = FreeTextOff /\ resize = ResizeOff

Next == WorkerNext

Spec == Init /\ [][Next]_vars

\* a one-shot run of the Qwen2-VL wrapper
InitOneShot ==
    /\ WorkerIdle
    /\ OneShotInit
    /\ layout = LayoutOff /\ freetext = FreeTextOff /\ resize = ResizeOff

SpecOneShot == InitOneShot /\ [][OneShotNext]_vars

\* structured layout reconstruction
InitLayout ==
    /\ WorkerIdle
    /\ LayoutInit
    /\ oneshot = OneShotOff /\ freetext = FreeTextOff /\ resize = ResizeOff

SpecLayout == InitLayout /\ [][LayoutNext]_vars

\* free-text reconstruction
InitFreeText ==
    /\ WorkerIdle
    /\ FreeTextInit
    /\ oneshot = OneShotOff /\ layout = LayoutOff /\ resize = ResizeOff

SpecFreeText == InitFreeText /\ [][FreeTextNext]_vars

\* the resize cap
InitResize ==
    /\ WorkerIdle
    /\ ResizeInit
    /\ oneshot = OneShotOff /\ layout = LayoutOff /\ freetext = FreeTextOff

SpecResize == InitResize /\ [][ResizeNext]_vars


----------------------------------------------------------------------------
(* Properties of the worker protocol *)

NonBlank(l) == Strip(l) # <<>>

\* the lines read so far that are not blank
Requests == SelectSeq(consumed, NonBlank)

InLoop == pc \in {"ready", "handle", "preprocess", "recognize", "finally", "respond"}
InFlight == pc \in {"handle", "preprocess", "recognize", "finally", "respond"}

\* the response the protocol prescribes for a request line
Prescribed(raw, resp) ==
    LET l == Strip(raw)
    IN  CASE l = <<"{", "bad">> -> resp = InvalidJson
          [] l = <<"5">> -> resp = NoGetAttribute
          [] l = <<"{", "}">> -> resp = MissingImagePath
          [] l = Strip(RequestLine("")) -> resp = MissingImagePath
          [] l = Strip(RequestLine("7")) -> resp = PathTypeError
          [] l = Strip(RequestLine("/nonexistent")) -> resp = FileNotFound("/nonexistent")
          [] l = Strip(RequestLine("/corrupt.png")) -> resp = CannotIdentify("/corrupt.png")
          [] l = Strip(RequestLine("/full.png")) ->
                /\ resp.success = FALSE
                /\ resp.error[1] = "[Errno 28] No space left on device: "
          [] l = Strip(RequestLine("/crash.png")) -> resp = PredictFailed
          [] l = Strip(RequestLine("/blank.png")) -> resp = NoTextDetected
          [] l = Strip(RequestLine("/margin.png")) ->
                resp = [success |-> TRUE, text |-> <<"\n", "\n", "a">>,
                        paragraphs |-> << <<>>, <<"a">> >>]
          [] l = Strip(RequestLine("/page.png")) ->
                resp = [success |-> TRUE,
                        text |-> <<"a", " ", "b", "\n", "\n", "c">>,
                        paragraphs |-> << <<"a", " ", "b">>, <<"c">> >>]
          [] OTHER -> FALSE

\* C1 as stated: every line received on the input stream, blank ones
\* included, gets exactly one response before the next line is read, and the
\* k-th response belongs to the k-th received line.
C1_EveryLineAnswered ==
    /\ InLoop => Len(stdout) = 1 + Len(answered)
    /\ pc \in {"ready", "terminated"} => Len(answered) = Len(consumed)
    /\ InFlight => Len(answered) = Len(consumed) - 1
    /\ \A k \in 1..Len(answered) :
          /\ answered[k].line = Strip(consumed[k])
          /\ stdout[k + 1] = answered[k].response

\* C1 (amended): every line received that is not blank after stripping gets
\* exactly one response line before the next line is read, and the k-th
\* response belongs to the k-th non-blank line (strict FIFO, none skipped,
\* none answered twice); a blank line is consumed without a response.
C1_NonBlankFifo ==
    /\ (InLoop \/ pc = "terminated") => Len(stdout) = 1 + Len(answered)
    /\ pc \in {"ready", "terminated"} => Len(answered) = Len(Requests)
    /\ InFlight => Len(answered) = Len(Requests) - 1
    /\ \A k \in 1..Len(answered) :
          /\ answered[k].line = Strip(Requests[k])
          /\ stdout[k + 1] = answered[k].response
          /\ Prescribed(Requests[k], stdout[k + 1])

C1_Witness ==
    /\ pc = "ready"
    /\ Len(consumed) = 3
    /\ Len(answered) = 2
    /\ ~NonBlank(consumed[2])
    /\ answered[1].response.success = FALSE
    /\ answered[2].response.success = TRUE

IsFailure(resp) == resp.success = FALSE

\* C2: once initialization has succeeded no per-request failure ends the
\* loop: the process has exited only by reaching the end of the input, in
\* the Ready state, with status 0 and without writing anything more; every
\* request before that, also one that follows failures, has been answered,
\* and with the response prescribed for it.
C2_FailureIsolation ==
    /\ [](stdout # <<>> =>
            /\ pc # "exited"
            /\ exitCode # NoExit => (pc = "terminated" /\ exitCode = 0 /\ stdin = <<>>)
            /\ pc = "terminated" => Len(answered) = Len(Requests)
            /\ \A k \in 1..Len(answered) :
                  (\A j \in 1..(k - 1) : IsFailure(answered[j].response))
                      => Prescribed(answered[k].line \o <<"\n">>, answered[k].response))
    /\ [][(pc # "terminated" /\ pc' = "terminated")
            => (pc = "ready" /\ stdin = <<>> /\ stdout' = stdout)]_vars
    /\ [][(InFlight /\ pc' \notin {"handle", "preprocess", "recognize", "finally", "respond"})
            => (pc = "respond" /\ pc' = "ready")]_vars

C2_Witness ==
    /\ pc = "terminated"
    /\ Len(answered) = 3
    /\ answered[1].response = InvalidJson
    /\ answered[2].response = PredictFailed
    /\ answered[3].response.success = TRUE

ReadyCount == Cardinality({k \in 1..Len(stdout) : stdout[k] = Ready})

\* C3: the readiness signal is written exactly once, after the recognizer
\* was loaded and before any line is consumed; when loading fails the
\* process exits with a non-zero status and the response stream is empty.
C3_ReadyOnce ==
    /\ ReadyCount <= 1
    /\ stdout # <<>> => (stdout[1] = Ready /\ ocrLoaded)
    /\ consumed # <<>> => ReadyCount = 1
    /\ (InLoop \/ pc = "terminated") => ReadyCount = 1
    /\ pc = "exited" => (exitCode # NoExit /\ exitCode # 0 /\ stdout = <<>> /\ consumed = <<>>)
    /\ ~ocrLoaded => stdout = <<>>

C3_Witness ==
    /\ pc = "exited"
    /\ exitCode = 1
    /\ stdin # <<>>
    /\ stdout = <<>>
    /\ Len(stderr) = 2

WorkerTemps == {f \in tmpfs : f.name[1] = "/tmp/ocr_input_"}
QwenTemps == {f \in tmpfs : f.name = QwenTempName}

\* C4: every temp working image (the worker's /tmp/ocr_input_<ts>.png and
\* the Qwen one-shot's resized copy) belongs to one request and is gone by
\* the time that request's outcome is reported, on every exit path; the
\* worker waiting for a request has no temp file.
C4_TempFilesReleased ==
    /\ pc \in {"respond", "ready", "terminated"} => WorkerTemps = {}
    /\ Cardinality(WorkerTemps) <= 1
    /\ oneshot.pc = "done" => QwenTemps = {}

\* the worker's half of C4, which the worker's code keeps
C4_WorkerTempsReleased ==
    /\ pc \in {"respond", "ready", "terminated"} => WorkerTemps = {}
    /\ Cardinality(WorkerTemps) <= 1

MissingFiles == Paths \ ExistingFiles

\* C5: a request whose image_path names no existing file is answered with
\* exactly "File not found: <path>", and for it no image was decoded, no
\* temp file created and the recognizer not invoked.
C5_FileNotFound ==
    /\ \A k \in 1..Len(answered) : \A p \in MissingFiles :
          answered[k].line = Strip(RequestLine(p)) =>
              /\ answered[k].response = FileNotFound(p)
              /\ answered[k].events \cap {"decode", "temp", "predict"} = {}
    /\ \A p \in MissingFiles :
          (InFlight /\ line = Strip(RequestLine(p))) =>
              (pc \in {"handle", "respond"} /\ temp_path = <<>>
               /\ events \cap {"decode", "temp", "predict"} = {})

C5_Witness ==
    /\ pc = "ready"
    /\ Len(answered) = 2
    /\ answered[1].response.success = TRUE
    /\ answered[2].line = Strip(RequestLine("/nonexistent"))
    /\ answered[2].events = {"fs"}

\* a line that parses as JSON and carries no image_path field
LacksImagePath(l) ==
    /\ JsonLoads(l) # <<>>
    /\ JsonLoads(l)[1].type = "dict" => ~JsonLoads(l)[1].has_path

\* C6: every line that parses as JSON but carries no image_path field,
\* JSON values that are not objects included, is answered with exactly
\* "Missing image_path", without touching the filesystem or the recognizer.
C6_MissingImagePath ==
    \A k \in 1..Len(answered) :
        LacksImagePath(answered[k].line) =>
            /\ answered[k].response = MissingImagePath
            /\ answered[k].events = {}


----------------------------------------------------------------------------
(* Properties of the structured layout reconstruction *)

LineIndexes == 1..Len(layout.rec.rec_texts)

\* the recognizer lines present in the reconstruction's sorted lines
Surviving == {layout.out.lines[k].src : k \in 1..Len(layout.out.lines)}

\* C7: a recognized line survives into paragraph reconstruction if and only
\* if its text is non-empty after trimming and its confidence is strictly
\* greater than 0.5 (a missing score counting as 0), so no surviving line
\* contributes an empty string.
C7_FilterTrimmed ==
    (layout.pc = "done" /\ layout.engine \in {"worker", "surya"}) =>
        /\ \A i \in LineIndexes :
              i \in Surviving <=>
                  (Strip(layout.rec.rec_texts[i]) # <<>>
                   /\ Confidence(layout.rec, i) > 50)
        /\ \A k \in 1..Len(layout.out.lines) : layout.out.lines[k].text # <<>>

\* the lines the engine's own filter keeps
Kept ==
    {i \in LineIndexes :
        IF layout.engine = "surya" THEN KeepSurya(layout.rec, i)
                                   ELSE KeepPaddle(layout.rec, i)}

\* twice the vertical key of recognizer line i
Key2(i) ==
    IF i <= Len(layout.rec.rec_boxes)
    THEN layout.rec.rec_boxes[i][2] + layout.rec.rec_boxes[i][4]
    ELSE 20 * (i - 1)

RECURSIVE Flatten(_)
Flatten(ss) == IF ss = <<>> THEN <<>> ELSE Head(ss) \o Flatten(Tail(ss))

\* the group that holds position k of the sorted lines
GroupOf(k) ==
    CHOOSE g \in 1..Len(layout.out.groups) :
        LET before == Len(Flatten(SubSeq(layout.out.groups, 1, g - 1)))
        IN  before < k /\ k <= before + Len(layout.out.groups[g])

\* C8: the surviving lines are stable-sorted ascending by vertical key
\* (equal keys keep emission order); two consecutive lines are in the same
\* paragraph exactly when their keys differ by at most 40; every surviving
\* line is in exactly one paragraph, in sorted order, and a paragraph is its
\* lines joined by single spaces.  Centres 0,10,20,70,80 give the two
\* paragraphs {0,10,20} and {70,80}.
C8_Segmentation ==
    (layout.pc = "done") =>
        LET ls == layout.out.lines
            gs == layout.out.groups
        IN  /\ Len(ls) = Cardinality(Kept)
            /\ Surviving = Kept
            /\ \A k \in 1..Len(ls) : ls[k].y2 = Key2(ls[k].src)
            /\ \A j, k \in 1..Len(ls) :
                  j < k => \/ ls[j].y2 < ls[k].y2
                           \/ (ls[j].y2 = ls[k].y2 /\ ls[j].src < ls[k].src)
            /\ Flatten(gs) = ls
            /\ \A g \in 1..Len(gs) : gs[g] # <<>>
            /\ \A k \in 1..(Len(ls) - 1) :
                  (GroupOf(k) = GroupOf(k + 1)) <=> (ls[k + 1].y2 - ls[k].y2 <= 2 * 40)
            /\ Len(layout.out.paragraphs) = Len(gs)
            /\ \A g \in 1..Len(gs) :
                  layout.out.paragraphs[g]
                      = Join([k \in 1..Len(gs[g]) |-> Strip(layout.rec.rec_texts[gs[g][k].src])], <<" ">>)
            /\ layout.out.full_text = Join(layout.out.paragraphs, <<"\n", "\n">>)
            /\ layout.rec = ExampleResult =>
                  layout.out.paragraphs = << <<"a", " ", "b", " ", "c">>, <<"d", " ", "e">> >>

C8_Witness ==
    /\ layout.pc = "done"
    /\ layout.engine = "paddle"
    /\ Len(layout.rec.rec_texts) = 3
    /\ Len(layout.out.lines) = 3
    /\ layout.out.lines[1].src = 3
    /\ layout.out.lines[2].y2 - layout.out.lines[1].y2 = 80
    /\ layout.out.lines[3].y2 - layout.out.lines[2].y2 = 82
    /\ Len(layout.out.groups) = 2
    /\ Len(layout.out.groups[1]) = 2

----------------------------------------------------------------------------
(* Properties of the free-text reconstruction *)

\* C9: free-text reconstruction is idempotent: applied to the full text it
\* produced, it returns the identical full text and paragraph sequence.
C9_Idempotent ==
    freetext.pc = "twice" =>
        /\ freetext.second[1].full_text = freetext.first[1].full_text
        /\ freetext.second[1].paragraphs = freetext.first[1].paragraphs

C9_Witness ==
    /\ freetext.pc = "twice"
    /\ Len(freetext.first[1].paragraphs) = 2
    /\ freetext.first[1].full_text # Strip(freetext.decoded)
    /\ \E k \in 1..Len(freetext.first[1].paragraphs[1]) :
          freetext.first[1].paragraphs[1][k] = " "

----------------------------------------------------------------------------
(* Properties of the resize cap *)

Abs(x) == IF x < 0 THEN -x ELSE x

\* C10: when the larger side exceeds the cap, the resized image's larger
\* side is the cap within one pixel, each new side is the truncated
\* side * cap / max(width, height) as the double arithmetic yields it (the
\* exact quotient's floor, or one below a whole quotient), width : height is
\* kept within one pixel, and the flag is true; when the larger side is at
\* most the cap the size is unchanged and the flag is false.
C10_ResizeCap ==
    resize.pc = "done" =>
        LET w == resize.width
            h == resize.height
            m == IF w >= h THEN w ELSE h
            cap == resize.cap
            o == resize.out[1]
            om == IF o.width >= o.height THEN o.width ELSE o.height
        IN  IF m > cap
            THEN /\ o.resized
                 /\ cap - 1 <= om /\ om <= cap
                 /\ o.width * m <= w * cap /\ w * cap <= (o.width + 1) * m
                 /\ o.height * m <= h * cap /\ h * cap <= (o.height + 1) * m
                 /\ (w * cap) % m # 0 => o.width = (w * cap) \div m
                 /\ (h * cap) % m # 0 => o.height = (h * cap) \div m
                 /\ Abs(o.width * h - o.height * w) <= m
            ELSE /\ ~o.resized
                 /\ o.width = w
                 /\ o.height = h

C10_Witness ==
    /\ resize.pc = "done"
    /\ resize.cap = 2200
    /\ resize.width = 4212
    /\ resize.height = 3020
    /\ resize.out[1].resized
    /\ resize.out[1].width = 2199
    /\ resize.out[1].height = 1577

----------------------------------------------------------------------------
(* Properties of the worker's success responses *)

IsSuccess(resp) == resp # Ready /\ resp.success = TRUE

\* C11: every success response written by the worker carries a non-empty
\* paragraphs list with no empty or whitespace-only element, and its text is
\* those paragraphs joined with "\n\n"; a reconstruction without such a
\* paragraph is answered "No text detected" instead.
C11_SuccessParagraphs ==
    \A k \in 1..Len(stdout) :
        IsSuccess(stdout[k]) =>
            /\ stdout[k].paragraphs # <<>>
            /\ \A g \in 1..Len(stdout[k].paragraphs) :
                  Strip(stdout[k].paragraphs[g]) # <<>>
            /\ stdout[k].text = Join(stdout[k].paragraphs, <<"\n", "\n">>)


====
